---- MODULE Spec2Model ----
(***************************************************************************)
(* watchbat: a battery watcher.  The program reads a charge percentage     *)
(* from a file on every tick, classifies it into a BatteryLevel through    *)
(* four Breakpoints, and turns level changes into desktop notifications.   *)
(*                                                                         *)
(* Two specifications are given.  Spec is the program itself (main, the    *)
(* on_interval iterator, Watcher::next/update and the consumer loop).      *)
(* SpecFn applies the pure functions of the crate to inputs drawn from     *)
(* bounded sets, one call at a time.                                       *)
(***************************************************************************)
EXTENDS Integers, Sequences, FiniteSets, TLC

VARIABLES
    pc,      \* position of the program: "main", "interval", "tick", "show", "panicked" (an unwrap failed),
             \* "exit" (the iterator ended), or "fn" under SpecFn
    args,    \* the values handed to Breakpoints::new and Config::new
    config,  \* Option<Config>: the Config owned by the Watcher once built
    state,   \* Watcher.state : BatteryLevel
    skip,    \* the `skip` flag captured by on_interval's closure
    read,    \* Option<Result<Percentage>>: what the latest read_percentage returned (None before the first tick)
    item,    \* Option<Notification>: what Watcher::next yielded in this iteration
    previous, \* history: Watcher.state as it was before the latest tick
    slept,    \* history: how many full-interval sleeps were taken since the latest tick
    failures, \* history: how many ticks in a row have failed, counted up to MaxFails
    panic,    \* Option: the Err value an unwrap() panicked with
    lastKnown, \* history: the latest level other than Unknown stored before the latest tick
    call     \* SpecFn only: the last pure-function call and what it returned

vars == <<pc, args, config, state, skip, read, item, previous, slept, failures, panic, lastKnown, call>>

(***************************************************************************)
(* Bounds of the model.                                                    *)
(***************************************************************************)
\* Longest file contents (in characters) the reading source returns.
MaxLen == 3
\* Breakpoint marks are drawn from 0..MaxMark, (MAX - MaxMark)..(MAX + 1) and 255.
MaxMark == 3
\* Consecutive failed ticks are counted up to MaxFails.
MaxFails == 2

(***************************************************************************)
(* Option and Result.                                                      *)
(***************************************************************************)
None == [some |-> FALSE]
Some(v) == [some |-> TRUE, val |-> v]
Ok(v) == [ok |-> TRUE, val |-> v]
Err(e) == [ok |-> FALSE, err |-> e]

(***************************************************************************)
(* Text.  A String is a sequence of one-character strings.                 *)
(***************************************************************************)
Digits == {"0", "1", "2", "3", "4", "5", "6", "7", "8", "9"}
WhiteSpace == {" ", "\t", "\n"}

DigitVal(c) ==
    CASE c = "0" -> 0 [] c = "1" -> 1 [] c = "2" -> 2 [] c = "3" -> 3
      [] c = "4" -> 4 [] c = "5" -> 5 [] c = "6" -> 6 [] c = "7" -> 7
      [] c = "8" -> 8 [] c = "9" -> 9

\* str::trim: drops leading and trailing whitespace.
RECURSIVE trim_start(_)
trim_start(s) ==
    IF s # <<>> /\ Head(s) \in WhiteSpace THEN trim_start(Tail(s)) ELSE s

RECURSIVE trim_end(_)
trim_end(s) ==
    IF s # <<>> /\ s[Len(s)] \in WhiteSpace
    THEN trim_end(SubSeq(s, 1, Len(s) - 1))
    ELSE s

trim(s) == trim_end(trim_start(s))

\* u8::MAX
U8_MAX == 255

\* The digit loop of <u8 as FromStr>::from_str: left to right, the first
\* offending character decides the error.
RECURSIVE parse_digits(_, _)
parse_digits(s, acc) ==
    IF s = <<>> THEN Ok(acc)
    ELSE IF Head(s) \notin Digits THEN Err("InvalidDigit")
    ELSE IF acc * 10 + DigitVal(Head(s)) > U8_MAX THEN Err("PosOverflow")
    ELSE parse_digits(Tail(s), acc * 10 + DigitVal(Head(s)))

\* str::parse::<u8>: no sign but an optional leading '+'.
parse_u8(s) ==
    IF s = <<>> THEN Err("Empty")
    ELSE IF Len(s) = 1 /\ Head(s) \in {"+", "-"} THEN Err("InvalidDigit")
    ELSE IF Head(s) = "+" THEN parse_digits(Tail(s), 0)
    ELSE parse_digits(s, 0)

(***************************************************************************)
(* error.rs and validate.rs                                                *)
(***************************************************************************)
IoError(kind) == [type |-> "Io", kind |-> kind]
ParseError(kind) == [type |-> "Parse", kind |-> kind]
ValidationError(e) == [type |-> "Validation", inner |-> e]

GreaterThanZero == [kind |-> "GreaterThanZero"]
Max(m) == [kind |-> "Max", limit |-> m]
Order(l, r) == [kind |-> "Order", left |-> l, right |-> r]
Required(name) == [kind |-> "Required", name |-> name]

\* `?`: an Err leaves the function, converted by From<..> for Error.
FromValidation(r) == IF r.ok THEN r ELSE Err(ValidationError(r.err))

greater_than_zero(val) ==
    IF ~(val > 0) THEN Err(GreaterThanZero) ELSE Ok(<<>>)

max(limit, actual) ==
    IF ~(actual <= limit) THEN Err(Max(limit)) ELSE Ok(<<>>)

order(left, right) ==
    IF ~(left < right) THEN Err(Order(left, right)) ELSE Ok(<<>>)

\* validate::required testing the value as given, without trim().
required_untrimmed(name, val) ==
    IF ~(val # <<>>) THEN Err(Required(name)) ELSE Ok(val)

required(name, val) ==
    LET clean == trim(val)
    IN  IF ~(clean # <<>>) THEN Err(Required(name)) ELSE Ok(clean)

(***************************************************************************)
(* battery/percentage.rs                                                   *)
(***************************************************************************)
\* Percentage::MAX
MAX == 100

\* Percentage::new written with validate::order in place of validate::max.
Percentage_new_by_order(val) ==
    LET checked == FromValidation(order(val, MAX))
    IN  IF ~checked.ok THEN checked ELSE Ok(val)

\* Percentage::new without the check.
Percentage_new_unchecked(val) == Ok(val)

Percentage_new(val) ==
    LET checked == FromValidation(max(MAX, val))
    IN  IF ~checked.ok THEN checked ELSE Ok(val)

\* TryFrom<String> for Percentage
try_from(s) ==
    LET val == parse_u8(trim(s))
    IN  IF ~val.ok THEN Err(ParseError(val.err)) ELSE Percentage_new(val.val)

\* `file` is what fs::read_to_string returned for the path.
open_and_parse_file(file) ==
    IF ~file.ok THEN Err(IoError(file.err)) ELSE try_from(file.val)

\* Breakpoints::new with the marks stored unchecked (no Percentage::new).
Breakpoints_new_unchecked(critical, low, high, full) ==
    LET o1 == FromValidation(order(critical, low))
        o2 == FromValidation(order(low, high))
        o3 == FromValidation(order(high, full))
    IN  IF ~o1.ok THEN o1
        ELSE IF ~o2.ok THEN o2
        ELSE IF ~o3.ok THEN o3
        ELSE Ok([critical |-> critical, low |-> low, high |-> high, full |-> full])

\* Breakpoints::new with the three order checks made from the top pair down.
Breakpoints_new_top_down(critical, low, high, full) ==
    LET o1 == FromValidation(order(critical, low))
        o2 == FromValidation(order(low, high))
        o3 == FromValidation(order(high, full))
        pc1 == Percentage_new(critical)
        pl == Percentage_new(low)
        ph == Percentage_new(high)
        pf == Percentage_new(full)
    IN  IF ~o3.ok THEN o3
        ELSE IF ~o2.ok THEN o2
        ELSE IF ~o1.ok THEN o1
        ELSE IF ~pc1.ok THEN pc1
        ELSE IF ~pl.ok THEN pl
        ELSE IF ~ph.ok THEN ph
        ELSE IF ~pf.ok THEN pf
        ELSE Ok([critical |-> critical, low |-> low, high |-> high, full |-> full])

Breakpoints_new(critical, low, high, full) ==
    LET o1 == FromValidation(order(critical, low))
        o2 == FromValidation(order(low, high))
        o3 == FromValidation(order(high, full))
        pc1 == Percentage_new(critical)
        pl == Percentage_new(low)
        ph == Percentage_new(high)
        pf == Percentage_new(full)
    IN  IF ~o1.ok THEN o1
        ELSE IF ~o2.ok THEN o2
        ELSE IF ~o3.ok THEN o3
        ELSE IF ~pc1.ok THEN pc1
        ELSE IF ~pl.ok THEN pl
        ELSE IF ~ph.ok THEN ph
        ELSE IF ~pf.ok THEN pf
        ELSE Ok([critical |-> pc1.val, low |-> pl.val,
                 high |-> ph.val, full |-> pf.val])

\* get_level with the critical mark excluded from the Critical band.
get_level_exclusive(self, percentage) ==
    IF percentage < self.critical THEN "Critical"
    ELSE IF percentage <= self.low THEN "Low"
    ELSE IF percentage < self.high THEN "Regular"
    ELSE IF percentage < self.full THEN "High"
    ELSE "Full"

get_level(self, percentage) ==
    IF percentage <= self.critical THEN "Critical"
    ELSE IF percentage <= self.low THEN "Low"
    ELSE IF percentage < self.high THEN "Regular"
    ELSE IF percentage < self.full THEN "High"
    ELSE "Full"

(***************************************************************************)
(* battery/level.rs                                                        *)
(***************************************************************************)
BatteryLevel == {"Unknown", "Critical", "Low", "Regular", "High", "Full"}

\* BatteryStatus: Unknown carries an optional detail, the others nothing.
Status(kind) == [kind |-> kind, detail |-> None]
StatusUnknown(detail) == [kind |-> "Unknown", detail |-> detail]

\* transition without the self-transition check.
transition_no_self_check(self, to) ==
    IF to = "Unknown" THEN Some(Status("Unknown"))
    ELSE IF to = "Critical" THEN Some(Status("Critical"))
    ELSE IF self = "Critical" /\ to = "Low" THEN None
    ELSE IF to = "Low" THEN Some(Status("Low"))
    ELSE IF self = "Full" /\ to = "High" THEN None
    ELSE IF to = "High" THEN Some(Status("High"))
    ELSE IF to = "Full" THEN Some(Status("Full"))
    ELSE None

\* transition with the (Critical, Low) arm written as (Regular, Low).
transition_low_from_regular(self, to) ==
    IF self = to THEN None
    ELSE IF to = "Unknown" THEN Some(Status("Unknown"))
    ELSE IF to = "Critical" THEN Some(Status("Critical"))
    ELSE IF self = "Regular" /\ to = "Low" THEN None
    ELSE IF to = "Low" THEN Some(Status("Low"))
    ELSE IF self = "Full" /\ to = "High" THEN None
    ELSE IF to = "High" THEN Some(Status("High"))
    ELSE IF to = "Full" THEN Some(Status("Full"))
    ELSE None

\* transition without the (Full, High) arm.
transition_no_high_arm(self, to) ==
    IF self = to THEN None
    ELSE IF to = "Unknown" THEN Some(Status("Unknown"))
    ELSE IF to = "Critical" THEN Some(Status("Critical"))
    ELSE IF self = "Critical" /\ to = "Low" THEN None
    ELSE IF to = "Low" THEN Some(Status("Low"))
    ELSE IF to = "High" THEN Some(Status("High"))
    ELSE IF to = "Full" THEN Some(Status("Full"))
    ELSE None

\* transition with the hysteresis arms also applied to the extremes:
\* (Low, Critical) and (High, Full) give nothing.
transition_extremes_suppressed(self, to) ==
    IF self = to THEN None
    ELSE IF to = "Unknown" THEN Some(Status("Unknown"))
    ELSE IF self = "Low" /\ to = "Critical" THEN None
    ELSE IF to = "Critical" THEN Some(Status("Critical"))
    ELSE IF self = "Critical" /\ to = "Low" THEN None
    ELSE IF to = "Low" THEN Some(Status("Low"))
    ELSE IF self = "Full" /\ to = "High" THEN None
    ELSE IF to = "High" THEN Some(Status("High"))
    ELSE IF self = "High" /\ to = "Full" THEN None
    ELSE IF to = "Full" THEN Some(Status("Full"))
    ELSE None

\* transition with the tuple of the last arm swapped: (Full, _) instead of
\* (_, Full).
transition_full_swapped(self, to) ==
    IF self = to THEN None
    ELSE IF to = "Unknown" THEN Some(Status("Unknown"))
    ELSE IF to = "Critical" THEN Some(Status("Critical"))
    ELSE IF self = "Critical" /\ to = "Low" THEN None
    ELSE IF to = "Low" THEN Some(Status("Low"))
    ELSE IF self = "Full" /\ to = "High" THEN None
    ELSE IF to = "High" THEN Some(Status("High"))
    ELSE IF self = "Full" THEN Some(Status("Full"))
    ELSE None

\* transition without either hysteresis arm: every change of level into
\* Low or High reports it.
transition_no_hysteresis(self, to) ==
    IF self = to THEN None
    ELSE IF to = "Unknown" THEN Some(Status("Unknown"))
    ELSE IF to = "Critical" THEN Some(Status("Critical"))
    ELSE IF to = "Low" THEN Some(Status("Low"))
    ELSE IF to = "High" THEN Some(Status("High"))
    ELSE IF to = "Full" THEN Some(Status("Full"))
    ELSE None

\* transition whose hysteresis arms also match Unknown: (Critical | Unknown,
\* Low) and (Full | Unknown, High) give nothing.
transition_unknown_suppresses(self, to) ==
    IF self = to THEN None
    ELSE IF to = "Unknown" THEN Some(Status("Unknown"))
    ELSE IF to = "Critical" THEN Some(Status("Critical"))
    ELSE IF self \in {"Critical", "Unknown"} /\ to = "Low" THEN None
    ELSE IF to = "Low" THEN Some(Status("Low"))
    ELSE IF self \in {"Full", "Unknown"} /\ to = "High" THEN None
    ELSE IF to = "High" THEN Some(Status("High"))
    ELSE IF to = "Full" THEN Some(Status("Full"))
    ELSE None

transition(self, to) ==
    IF self = to THEN None
    ELSE IF to = "Unknown" THEN Some(Status("Unknown"))
    ELSE IF to = "Critical" THEN Some(Status("Critical"))
    ELSE IF self = "Critical" /\ to = "Low" THEN None
    ELSE IF to = "Low" THEN Some(Status("Low"))
    ELSE IF self = "Full" /\ to = "High" THEN None
    ELSE IF to = "High" THEN Some(Status("High"))
    ELSE IF to = "Full" THEN Some(Status("Full"))
    ELSE None

(***************************************************************************)
(* battery/status.rs                                                       *)
(***************************************************************************)
\* Display for BatteryStatus
to_string(status) ==
    CASE status.kind = "Unknown" -> "Battery is Unknown"
      [] status.kind = "Critical" -> "Battery is Critical"
      [] status.kind = "Low" -> "Battery is almost Empty"
      [] status.kind = "High" -> "Battery is almost Full"
      [] status.kind = "Full" -> "Battery is Full"

TIMEOUT == 5000

\* Notification::new(): empty summary and body, no urgency hint, the
\* server's default timeout (-1).
Notification_new ==
    [summary |-> "", body |-> "", urgency |-> "Unset", timeout |-> -1]

\* From<BatteryStatus> with Unknown(Some(e)) handled by the Unknown(None) arm.
Notification_from_detail_dropped(status) ==
    LET notification == [Notification_new EXCEPT !.summary = to_string(status)]
    IN  IF status.kind \in {"Unknown", "Critical"}
        THEN [notification EXCEPT !.urgency = "Critical", !.timeout = 0]
        ELSE IF status.kind \in {"Low", "Full"}
        THEN [notification EXCEPT !.urgency = "Critical", !.timeout = TIMEOUT]
        ELSE notification

\* From<BatteryStatus> with High listed in the Low | Full arm.
Notification_from_high_timed(status) ==
    LET notification == [Notification_new EXCEPT !.summary = to_string(status)]
    IN  IF status.kind = "Unknown" /\ status.detail.some
        THEN [notification EXCEPT !.body = status.detail.val,
                                  !.urgency = "Critical", !.timeout = 0]
        ELSE IF status.kind \in {"Unknown", "Critical"}
        THEN [notification EXCEPT !.urgency = "Critical", !.timeout = 0]
        ELSE IF status.kind \in {"Low", "High", "Full"}
        THEN [notification EXCEPT !.urgency = "Critical", !.timeout = TIMEOUT]
        ELSE notification

\* From<BatteryStatus> for Notification
Notification_from(status) ==
    LET notification == [Notification_new EXCEPT !.summary = to_string(status)]
    IN  IF status.kind = "Unknown" /\ status.detail.some
        THEN [notification EXCEPT !.body = status.detail.val,
                                  !.urgency = "Critical", !.timeout = 0]
        ELSE IF status.kind \in {"Unknown", "Critical"}
        THEN [notification EXCEPT !.urgency = "Critical", !.timeout = 0]
        ELSE IF status.kind \in {"Low", "Full"}
        THEN [notification EXCEPT !.urgency = "Critical", !.timeout = TIMEOUT]
        ELSE notification

\* Display for io::Error and num::ParseIntError.
IoMessage(kind) ==
    CASE kind = "NotFound" -> "No such file or directory (os error 2)"
      [] kind = "PermissionDenied" -> "Permission denied (os error 13)"

ParseMessage(kind) ==
    CASE kind = "Empty" -> "cannot parse integer from empty string"
      [] kind = "InvalidDigit" -> "invalid digit found in string"
      [] kind = "PosOverflow" -> "number too large to fit in target type"

\* Display for validate::ValidationError
ValidationMessage(e) ==
    CASE e.kind = "GreaterThanZero" -> "must be greater than zero"
      [] e.kind = "Max" -> "cannot be greater than " \o ToString(e.limit)
      [] e.kind = "Order" ->
            "left value (" \o ToString(e.left)
                \o ") must be less than right value (" \o ToString(e.right) \o ")"
      [] e.kind = "Required" -> "property '" \o e.name \o "' is required"

\* Display for Error
Display(e) ==
    CASE e.type = "Io" -> "I/O Error: " \o IoMessage(e.kind)
      [] e.type = "Parse" -> "Parsing Error: " \o ParseMessage(e.kind)
      [] e.type = "Validation" -> "Validation Error: " \o ValidationMessage(e.inner)

\* The conversion of a read Error into a Notification that Watcher::next
\* calls (`e.into()`): an Unknown status carrying the failure detail.
Notification_from_error(e) ==
    Notification_from(StatusUnknown(Some(Display(e))))

(***************************************************************************)
(* battery/watcher.rs                                                      *)
(***************************************************************************)
Config_new(battery_file, breakpoints, interval) ==
    LET file == FromValidation(required("battery_file", battery_file))
        positive == FromValidation(greater_than_zero(interval))
    IN  IF ~file.ok THEN file
        ELSE IF ~positive.ok THEN positive
        ELSE Ok([battery_file |-> file.val, breakpoints |-> breakpoints,
                 interval |-> interval])

\* `file` is what the file system answers for cfg.battery_file.
read_percentage(cfg, file) == open_and_parse_file(file)

\* update with a failed read sent through the transition table, like any
\* other level.
update_failure_through_transition(cfg, st, file) ==
    LET percentage == read_percentage(cfg, file)
    IN  IF percentage.ok
        THEN LET level == get_level(cfg.breakpoints, percentage.val)
                 status == transition(st, level)
             IN  [state |-> level, ret |-> Ok(status)]
        ELSE [state |-> "Unknown", ret |-> Ok(transition(st, "Unknown"))]

\* update with the state assigned before the transition is computed.
update_state_first(cfg, st, file) ==
    LET percentage == read_percentage(cfg, file)
    IN  IF percentage.ok
        THEN LET level == get_level(cfg.breakpoints, percentage.val)
                 status == transition(level, level)
             IN  [state |-> level, ret |-> Ok(status)]
        ELSE [state |-> "Unknown", ret |-> Err(percentage.err)]

\* Watcher::update on a watcher whose fields are (cfg, st): the new state and
\* the Result<Option<BatteryStatus>> returned.
\* update whose failed read leaves the stored level as it was.
update_failure_keeps_state(cfg, st, file) ==
    LET percentage == read_percentage(cfg, file)
    IN  IF percentage.ok
        THEN LET level == get_level(cfg.breakpoints, percentage.val)
                 status == transition(st, level)
             IN  [state |-> level, ret |-> Ok(status)]
        ELSE [state |-> st, ret |-> Err(percentage.err)]

update(cfg, st, file) ==
    LET percentage == read_percentage(cfg, file)
    IN  IF percentage.ok
        THEN LET level == get_level(cfg.breakpoints, percentage.val)
                 status == transition(st, level)
             IN  [state |-> level, ret |-> Ok(status)]
        ELSE [state |-> "Unknown", ret |-> Err(percentage.err)]

\* Iterator::next for Watcher: the new state and the Option<Item> returned,
\* Item = Option<Notification>.
Watcher_next(cfg, st, file) ==
    LET u == update(cfg, st, file)
    IN  [state |-> u.state,
         ret |-> Some(IF u.ret.ok
                      THEN IF u.ret.val.some
                           THEN Some(Notification_from(u.ret.val.val))
                           ELSE None
                      ELSE Some(Notification_from_error(u.ret.err)))]

(***************************************************************************)
(* Inputs.                                                                 *)
(***************************************************************************)
\* Characters of the strings handed to try_from.
Alphabet == Digits \cup {" ", "\n", "+", "-"}

\* Characters the battery file holds in Spec.
FileAlphabet == {"0", "1", "4", "9", " ", "-"}

RECURSIVE StringsOfLen(_, _)
StringsOfLen(alphabet, n) ==
    IF n = 0 THEN {<<>>}
    ELSE {<<c>> \o s : c \in alphabet, s \in StringsOfLen(alphabet, n - 1)}

Strings == UNION {StringsOfLen(Alphabet, n) : n \in 0..MaxLen}

Contents == UNION {StringsOfLen(FileAlphabet, n) : n \in 0..MaxLen}

IoKinds == {"NotFound", "PermissionDenied"}

\* What fs::read_to_string may return.
FileReads == {Err(k) : k \in IoKinds} \cup {Ok(s) : s \in Contents}

\* main.rs: Config::default()
DefaultMarks == <<10, 13, 94, 97>>
DefaultFile == <<"B", "A", "T", "0">>
DefaultInterval == 45

Marks == (0..MaxMark) \cup ((MAX - MaxMark)..(MAX + 1)) \cup {U8_MAX}

MainArgs ==
    [marks : {DefaultMarks, <<0, 1, 9, 10>>, <<0, 0, 0, 0>>, <<101, 102, 103, 104>>},
     battery_file : {DefaultFile, <<" ", "B", "\n">>, <<>>, <<" ">>},
     interval : {0, DefaultInterval}]

(***************************************************************************)
(* Spec: the program.                                                      *)
(***************************************************************************)
NoCall == [fn |-> "none"]

Init ==
    /\ pc = "main"
    /\ args \in MainArgs
    /\ config = None
    /\ state = "Unknown"
    /\ skip = TRUE
    /\ read = None
    /\ item = None
    /\ previous = "Unknown"
    /\ slept = 0
    /\ failures = 0
    /\ panic = None
    /\ lastKnown = "Unknown"
    /\ call = NoCall

\* main.rs 11-23: Config::default() unwraps both constructions; Watcher::new
\* starts from BatteryLevel::default(); run() builds on_interval(interval, true).
main ==
    /\ pc = "main"
    /\ LET breakpoints == Breakpoints_new(args.marks[1], args.marks[2],
                                          args.marks[3], args.marks[4])
           cfg == IF breakpoints.ok
                  THEN Config_new(args.battery_file, breakpoints.val, args.interval)
                  ELSE breakpoints
       IN  IF cfg.ok
           THEN /\ config' = Some(cfg.val)
                /\ state' = "Unknown"
                /\ skip' = TRUE
                /\ pc' = "interval"
                /\ panic' = panic
           ELSE /\ pc' = "panicked"
                /\ panic' = Some(cfg.err)
                /\ UNCHANGED <<config, state, skip>>
    /\ UNCHANGED <<args, read, item, previous, slept, failures, lastKnown, call>>

\* on_interval with the `immediate` flag ignored: every step sleeps.
on_interval_not_immediate ==
    /\ pc = "interval"
    /\ skip' = skip
    /\ slept' = slept + 1
    /\ item' = None
    /\ pc' = "tick"
    /\ UNCHANGED <<args, config, state, read, previous, failures, panic, lastKnown, call>>

\* utils.rs 11-17: one step of the on_interval iterator, pulled by zip
\* before it pulls the watcher; the item of the finished iteration is gone.
on_interval ==
    /\ pc = "interval"
    /\ IF skip
       THEN /\ skip' = FALSE
            /\ slept' = slept
       ELSE /\ skip' = skip
            /\ slept' = slept + 1    \* thread::sleep(interval)
    /\ item' = None
    /\ pc' = "tick"
    /\ UNCHANGED <<args, config, state, read, previous, failures, panic, lastKnown, call>>

\* watcher.rs 61-65, 90-98: zip pulls Watcher::next; filter_map drops a None
\* item and pulls again, and hands a notification to the consumer.
tick ==
    /\ pc = "tick"
    /\ \E file \in FileReads :
         LET n == Watcher_next(config.val, state, file)
             percentage == read_percentage(config.val, file)
         IN  /\ read' = Some(percentage)
             /\ previous' = state
             /\ lastKnown' = IF state # "Unknown" THEN state ELSE lastKnown
             /\ slept' = 0
             /\ failures' = IF percentage.ok THEN 0
                             ELSE IF failures < MaxFails THEN failures + 1
                             ELSE failures
             /\ state' = n.state
             /\ IF ~n.ret.some
                THEN /\ item' = None
                     /\ pc' = "exit"
                ELSE /\ item' = n.ret.val
                     /\ pc' = IF n.ret.val.some THEN "show" ELSE "interval"
    /\ UNCHANGED <<args, config, skip, panic, call>>

\* The error of a Notification::show() that could not deliver.
ShowError == [type |-> "Notification"]

\* main.rs 25-27: notification.show().unwrap()
show ==
    /\ pc = "show"
    /\ \E delivered \in BOOLEAN :
         IF delivered
         THEN /\ pc' = "interval"
              /\ panic' = panic
         ELSE /\ pc' = "panicked"
              /\ panic' = Some(ShowError)
    /\ UNCHANGED <<args, config, state, skip, read, item, previous, slept, failures, lastKnown, call>>

Next == main \/ on_interval \/ tick \/ show

Spec == Init /\ [][Next]_vars

(***************************************************************************)
(* SpecFn: the pure functions, each applied once to inputs drawn from      *)
(* bounded sets.  `call` holds the function, its arguments and, once       *)
(* applied, what it returned.                                              *)
(***************************************************************************)
Pending(fn, a) == [fn |-> fn, args |-> a, ret |-> None]

\* Every Breakpoints value is built by Breakpoints::new, every Percentage by
\* Percentage::new.
MarkArgs == (Marks \X Marks \X Marks \X Marks) \cup {DefaultMarks}

BreakpointsValues ==
    {Breakpoints_new(m[1], m[2], m[3], m[4]).val :
        m \in {a \in MarkArgs : Breakpoints_new(a[1], a[2], a[3], a[4]).ok}}

PercentageValues ==
    {Percentage_new(v).val : v \in {u \in 0..U8_MAX : Percentage_new(u).ok}}

TransitionCalls ==
    {Pending("transition", <<self, to>>) : self \in BatteryLevel, to \in BatteryLevel}
BreakpointsNewCalls == {Pending("Breakpoints_new", m) : m \in MarkArgs}
PercentageNewCalls == {Pending("Percentage_new", <<v>>) : v \in 0..U8_MAX}
GetLevelCalls ==
    {Pending("get_level", <<b, p>>) : b \in BreakpointsValues, p \in PercentageValues}
TryFromCalls == {Pending("try_from", <<s>>) : s \in Strings}

\* The messages a failed read can carry into BatteryStatus::Unknown.
Details ==
    {Display(IoError(k)) : k \in IoKinds}
    \cup {Display(ParseError(k)) : k \in {"Empty", "InvalidDigit", "PosOverflow"}}
    \cup {Display(ValidationError(Max(MAX)))}

StatusValues ==
    {Status(k) : k \in {"Unknown", "Critical", "Low", "High", "Full"}}
    \cup {StatusUnknown(Some(d)) : d \in Details}

NotificationFromCalls == {Pending("Notification_from", <<st>>) : st \in StatusValues}

InitFn ==
    /\ pc = "fn"
    /\ args = DefaultMarks
    /\ config = None
    /\ state = "Unknown"
    /\ skip = TRUE
    /\ read = None
    /\ item = None
    /\ previous = "Unknown"
    /\ slept = 0
    /\ failures = 0
    /\ panic = None
    /\ lastKnown = "Unknown"
    /\ \/ call \in TransitionCalls
       \/ call \in BreakpointsNewCalls
       \/ call \in PercentageNewCalls
       \/ call \in GetLevelCalls
       \/ call \in TryFromCalls
       \/ call \in NotificationFromCalls

Returns(fn, result) ==
    /\ call.fn = fn
    /\ ~call.ret.some
    /\ call' = [call EXCEPT !.ret = Some(result)]
    /\ UNCHANGED <<pc, args, config, state, skip, read, item, previous, slept, failures, panic, lastKnown>>

call_transition ==
    /\ call.fn = "transition"
    /\ Returns("transition", transition(call.args[1], call.args[2]))

call_Breakpoints_new ==
    /\ call.fn = "Breakpoints_new"
    /\ Returns("Breakpoints_new",
               Breakpoints_new(call.args[1], call.args[2], call.args[3], call.args[4]))

call_Percentage_new ==
    /\ call.fn = "Percentage_new"
    /\ Returns("Percentage_new", Percentage_new(call.args[1]))

call_get_level ==
    /\ call.fn = "get_level"
    /\ Returns("get_level", get_level(call.args[1], call.args[2]))

call_try_from ==
    /\ call.fn = "try_from"
    /\ Returns("try_from", try_from(call.args[1]))

call_Notification_from ==
    /\ call.fn = "Notification_from"
    /\ Returns("Notification_from", Notification_from(call.args[1]))

NextFn ==
    \/ call_transition
    \/ call_Breakpoints_new
    \/ call_Percentage_new
    \/ call_get_level
    \/ call_try_from
    \/ call_Notification_from

SpecFn == InitFn /\ [][NextFn]_vars

\* A call of fn has returned.
Returned(fn) == call.fn = fn /\ call.ret.some

(***************************************************************************)
(* Properties.                                                             *)
(***************************************************************************)
\* A step that performs one tick of the watcher.
TickStep == pc = "tick" /\ pc' # "tick"

\* r is the Option<Result<Percentage>> of a tick whose read failed / succeeded.
FailedRead(r) == r.some /\ ~r.val.ok
GoodRead(r) == r.some /\ r.val.ok

\* The notification n is the alert of the given kind of status.
IsAlert(n, summary) == n.some /\ n.val.summary = summary

\* C1: every tick whose read fails sets the level to Unknown and hands the
\* consumer one Unknown alert whose body is the failure's message, whatever
\* the level was before; so each tick of a run of failed ticks emits one.
C1_FailedTickEmitsUnknown ==
    [][(TickStep /\ FailedRead(read')) =>
          /\ state' = "Unknown"
          /\ pc' = "show"
          /\ IsAlert(item', "Battery is Unknown")
          /\ item'.val.body = Display(read'.val.err)]_vars

\* A second failed tick in a row has emitted its Unknown alert.
C1_Witness ==
    /\ pc = "show"
    /\ FailedRead(read)
    /\ failures >= 2
    /\ previous = "Unknown"
    /\ IsAlert(item, "Battery is Unknown")

\* C2: a tick whose read succeeds with percentage p ends with the level
\* get_level(p) and emits exactly transition(level before the tick, that
\* level); from Unknown the levels Critical, Low, Regular, High emit
\* Critical, nothing, nothing, High.
C2_SuccessfulTick ==
    [][(TickStep /\ GoodRead(read')) =>
          LET next == get_level(config.val.breakpoints, read'.val.val)
              status == transition(state, next)
          IN  /\ state' = next
              /\ item' = IF status.some THEN Some(Notification_from(status.val))
                         ELSE None
              /\ pc' = IF status.some THEN "show" ELSE "interval"
              /\ (state = "Unknown" /\ next = "Critical")
                    => IsAlert(item', "Battery is Critical")
              /\ (state = "Critical" /\ next = "Low") => item' = None
              /\ (state = "Low" /\ next = "Regular") => item' = None
              /\ (state = "Regular" /\ next = "High")
                    => IsAlert(item', "Battery is almost Full")]_vars

\* The last tick of the scenario: Regular to High has emitted the High alert.
C2_Witness ==
    /\ pc = "show"
    /\ GoodRead(read)
    /\ previous = "Regular"
    /\ state = "High"
    /\ IsAlert(item, "Battery is almost Full")

\* The returned Option<BatteryStatus> of a transition call.
Reports(kind) == call.ret.val.some /\ call.ret.val.val.kind = kind
ReportsNothing == ~call.ret.val.some

\* C3: transition(L, L) returns no status, for each of the six levels.
C3_SelfTransition ==
    (Returned("transition") /\ call.args[1] = call.args[2]) => ReportsNothing

C3_Witness ==
    /\ Returned("transition")
    /\ call.args = <<"Unknown", "Unknown">>
    /\ ReportsNothing

\* C4: transition(Critical, Low) returns no status, and transition(X, Low)
\* returns Status::Low for X in {Unknown, Regular, High, Full}.
C4_IntoLow ==
    (Returned("transition") /\ call.args[2] = "Low") =>
        /\ call.args[1] = "Critical" => ReportsNothing
        /\ call.args[1] \in {"Unknown", "Regular", "High", "Full"} => Reports("Low")

C4_Witness ==
    /\ Returned("transition")
    /\ call.args = <<"Critical", "Low">>
    /\ ReportsNothing

\* C5: transition(Full, High) returns no status, and transition(X, High)
\* returns Status::High for X in {Unknown, Critical, Low, Regular}.
C5_IntoHigh ==
    (Returned("transition") /\ call.args[2] = "High") =>
        /\ call.args[1] = "Full" => ReportsNothing
        /\ call.args[1] \in {"Unknown", "Critical", "Low", "Regular"} => Reports("High")

C5_Witness ==
    /\ Returned("transition")
    /\ call.args = <<"Full", "High">>
    /\ ReportsNothing

\* C6: for N in {Unknown, Critical, Full} and every previous level P other
\* than N, transition(P, N) returns the status named after N.
C6_AlwaysReported ==
    (/\ Returned("transition")
     /\ call.args[2] \in {"Unknown", "Critical", "Full"}
     /\ call.args[1] # call.args[2]) => Reports(call.args[2])

C6_Witness ==
    /\ Returned("transition")
    /\ call.args = <<"High", "Full">>
    /\ Reports("Full")

\* C7: transition(P, Regular) returns no status for every previous level P.
C7_IntoRegular ==
    (Returned("transition") /\ call.args[2] = "Regular") => ReportsNothing

C7_Witness ==
    /\ Returned("transition")
    /\ call.args = <<"Full", "Regular">>
    /\ ReportsNothing

\* C8: for Breakpoints with critical < low < high < full <= 100 and a
\* percentage v in 0..100, get_level returns Critical iff v <= critical, Low
\* iff critical < v <= low, Regular iff low < v < high, High iff
\* high <= v < full, Full iff v >= full, and never Unknown.
C8_BandTable ==
    Returned("get_level") =>
        LET b == call.args[1]
            v == call.args[2]
            level == call.ret.val
        IN  (/\ b.critical < b.low /\ b.low < b.high /\ b.high < b.full
             /\ b.full <= 100
             /\ v \in 0..100) =>
                /\ level \in BatteryLevel \ {"Unknown"}
                /\ level = "Critical" <=> v <= b.critical
                /\ level = "Low" <=> (b.critical < v /\ v <= b.low)
                /\ level = "Regular" <=> (b.low < v /\ v < b.high)
                /\ level = "High" <=> (b.high <= v /\ v < b.full)
                /\ level = "Full" <=> v >= b.full

\* A percentage sitting on the critical mark has been classified.
C8_Witness ==
    /\ Returned("get_level")
    /\ call.args[1] = [critical |-> 0, low |-> 1, high |-> 3, full |-> 100]
    /\ call.args[2] = 0
    /\ call.ret.val = "Critical"

\* C9: Breakpoints::new succeeds iff critical < low < high < full and every
\* mark is at most 100.
C9_BreakpointsNew ==
    Returned("Breakpoints_new") =>
        LET critical == call.args[1]
            low == call.args[2]
            high == call.args[3]
            full == call.args[4]
        IN  call.ret.val.ok <=>
                /\ critical < low /\ low < high /\ high < full
                /\ critical <= 100 /\ low <= 100 /\ high <= 100 /\ full <= 100

\* Increasing marks, the last above 100, have been refused.
C9_Witness ==
    /\ Returned("Breakpoints_new")
    /\ call.args = <<98, 99, 100, 101>>
    /\ ~call.ret.val.ok

\* C10: a read failure never ends the run loop: no tick ends the iteration,
\* and after a failed tick the program always goes on to a further tick
\* (it is never stopped with the failed tick as its last).
C10_ReadFailureNeverEndsLoop ==
    /\ pc # "exit"
    /\ FailedRead(read) => pc # "panicked"


\* C11: the first tick is taken with no sleep before it; every later tick is
\* preceded by exactly one sleep of the interval, which starts only once the
\* previous tick is over (an emitted alert has been through the consumer's
\* show); one tick at a time.
C11_IntervalDiscipline ==
    [][/\ TickStep => slept = (IF read.some THEN 1 ELSE 0)
       /\ slept' > slept => (pc = "interval" /\ read.some)
       /\ (pc # "interval" /\ pc' = "interval" /\ item'.some) => pc = "show"
       /\ (pc # "interval" /\ pc' = "interval") => pc \in {"main", "tick", "show"}]_vars

\* The one sleep before a later tick has been taken.
C11_Witness ==
    /\ pc = "tick"
    /\ read.some
    /\ ~skip
    /\ slept = 1


\* C12: a delivery that fails does not stop the watcher or change its level:
\* every step of the consumer's show leads back into the run loop with the
\* level unchanged.
C12_DeliveryFailureKeepsLooping ==
    [][(pc = "show" /\ pc' # "show") => (pc' = "interval" /\ state' = state)]_vars


\* C13: Unknown (with or without detail) and Critical are shaped into a
\* sticky alert (timeout 0), Low and Full into a timed alert of 5 seconds
\* (5000 ms); an Unknown with a detail carries the detail as its body.
C13_StickyAndTimed ==
    Returned("Notification_from") =>
        LET status == call.args[1]
            notification == call.ret.val
        IN  /\ status.kind \in {"Unknown", "Critical"} => notification.timeout = 0
            /\ status.kind \in {"Low", "Full"} => notification.timeout = 5000
            /\ (status.kind = "Unknown" /\ status.detail.some)
                  => notification.body = status.detail.val

\* An Unknown status with a detail has been shaped.
C13_Witness ==
    /\ Returned("Notification_from")
    /\ call.args[1].kind = "Unknown"
    /\ call.args[1].detail.some
    /\ call.ret.val.body = call.args[1].detail.val
    /\ call.ret.val.timeout = 0

\* C14 as stated: High is shaped like Low and Full, with the 5 second
\* timeout and the same urgency.
C14_HighTimedLikeLow ==
    (Returned("Notification_from") /\ call.args[1].kind = "High") =>
        /\ call.ret.val.timeout = 5000
        /\ call.ret.val.urgency = "Critical"

\* C14 as amended: High is shaped into an alert that keeps the notification
\* defaults: its summary only, no urgency set, the server's default timeout.
C14_HighKeepsDefaults ==
    (Returned("Notification_from") /\ call.args[1].kind = "High") =>
        call.ret.val = [summary |-> "Battery is almost Full", body |-> "",
                        urgency |-> "Unset", timeout |-> -1]

C14_Witness ==
    /\ Returned("Notification_from")
    /\ call.args[1].kind = "High"
    /\ call.ret.val.urgency = "Unset"


\* C15 as stated: no tick, whatever the file holds, produces a validation
\* error.
C15_NoValidationErrorInTick ==
    FailedRead(read) => read.val.err.type # "Validation"

\* C15 as amended: the one validation error a tick produces is the
\* out-of-range error Max(100), for a text that parses to more than 100;
\* Order, Required and GreaterThanZero come from construction alone, where
\* they stop main before any tick.
C15_TickValidationIsMax ==
    /\ (FailedRead(read) /\ read.val.err.type = "Validation")
          => read.val.err.inner = [kind |-> "Max", limit |-> 100]
    /\ (panic.some /\ panic.val.type = "Validation")
          => (~read.some /\ ~config.some /\ pc = "panicked")

\* A tick has failed on a reading above 100 and emitted its Unknown alert.
C15_Witness ==
    /\ pc = "show"
    /\ FailedRead(read)
    /\ read.val.err.type = "Validation"
    /\ state = "Unknown"
    /\ IsAlert(item, "Battery is Unknown")


\* What main was started with, judged without the constructors.
BlankFile ==
    \A i \in 1..Len(args.battery_file) : args.battery_file[i] \in WhiteSpace

ValidMarks ==
    /\ args.marks[1] < args.marks[2]
    /\ args.marks[2] < args.marks[3]
    /\ args.marks[3] < args.marks[4]
    /\ \A i \in 1..4 : args.marks[i] <= 100

\* C16: configuration is fail-fast.  With constructed Breakpoints, Config::new
\* fails with Required("battery_file") on an empty or whitespace-only source
\* and otherwise with GreaterThanZero on an interval that is not strictly
\* positive; whenever anything is invalid no Config and no Watcher exist and
\* no tick ever runs; a Config that exists holds valid settings.
C16_FailFast ==
    pc # "main" =>
        /\ (ValidMarks /\ BlankFile)
              => panic = Some(ValidationError(Required("battery_file")))
        /\ (ValidMarks /\ ~BlankFile /\ ~(args.interval > 0))
              => panic = Some(ValidationError(GreaterThanZero))
        /\ (~ValidMarks \/ BlankFile \/ ~(args.interval > 0))
              => /\ pc = "panicked"
                 /\ ~config.some
                 /\ ~read.some
                 /\ item = None
                 /\ slept = 0
        /\ config.some
              => /\ ValidMarks /\ ~BlankFile /\ args.interval > 0
                 /\ config.val.battery_file = trim(args.battery_file)
                 /\ config.val.interval = args.interval
        /\ read.some => config.some

\* main has stopped on a whitespace-only battery source.
C16_Witness ==
    /\ pc = "panicked"
    /\ args.battery_file = <<" ">>
    /\ ValidMarks
    /\ panic = Some(ValidationError(Required("battery_file")))
    /\ ~config.some


\* C17: when the marks are not strictly increasing, Breakpoints::new fails
\* with the Order error naming the first violated pair, taken in the order
\* (critical, low), (low, high), (high, full).
C17_FirstViolatedPair ==
    Returned("Breakpoints_new") =>
        LET critical == call.args[1]
            low == call.args[2]
            high == call.args[3]
            full == call.args[4]
            ret == call.ret.val
        IN  IF ~(critical < low)
            THEN ret = Err(ValidationError(Order(critical, low)))
            ELSE IF ~(low < high)
            THEN ret = Err(ValidationError(Order(low, high)))
            ELSE IF ~(high < full)
            THEN ret = Err(ValidationError(Order(high, full)))
            ELSE ret.ok \/ ret.err.inner.kind # "Order"

\* Both the first and the last pair are out of order, and the error names
\* the first.
C17_Witness ==
    /\ Returned("Breakpoints_new")
    /\ call.args[1] >= call.args[2]
    /\ call.args[2] < call.args[3]
    /\ call.args[3] >= call.args[4]
    /\ call.ret.val = Err(ValidationError(Order(call.args[1], call.args[2])))

\* C18: over every u8 value, Percentage::new succeeds iff the value is at
\* most 100, returning that value; above 100 it fails with Max(100) and
\* builds nothing.
C18_PercentageNew ==
    Returned("Percentage_new") =>
        LET v == call.args[1]
            ret == call.ret.val
        IN  /\ ret.ok <=> v <= 100
            /\ v <= 100 => ret = Ok(v)
            /\ v > 100 => ret = Err(ValidationError(Max(100)))

\* 255, the largest u8, has been refused.
C18_Witness ==
    /\ Returned("Percentage_new")
    /\ call.args[1] = 255
    /\ call.ret.val = Err(ValidationError(Max(100)))


C20_UnknownIffNoGoodRead ==
    config.some =>
        /\ (state = "Unknown") <=> (~read.some \/ FailedRead(read))
        /\ GoodRead(read)
              => state \in {"Critical", "Low", "Regular", "High", "Full"}

\* A failed read has brought a known level back to Unknown.
C20_Witness ==
    /\ config.some
    /\ previous \in {"Critical", "Low", "Regular", "High", "Full"}
    /\ FailedRead(read)
    /\ state = "Unknown"


\* C21: a failed tick erases the hysteresis memory.  The first successful
\* tick after a failed tick emits the alert of its new level when that level
\* is Critical, Low, High or Full, and nothing when it is Regular, whatever
\* level was stored before the failure; so Critical, failure, Low emits the
\* Low alert and Full, failure, High emits the High alert.
C21_FailureErasesHysteresis ==
    [][(TickStep /\ FailedRead(read) /\ GoodRead(read')) =>
          /\ state = "Unknown"
          /\ lastKnown' = lastKnown
          /\ state' \in {"Critical", "Low", "High", "Full"}
                => /\ item' = Some(Notification_from(Status(state')))
                   /\ pc' = "show"
          /\ state' = "Regular" => (item' = None /\ pc' = "interval")
          /\ (lastKnown = "Critical" /\ state' = "Low")
                => IsAlert(item', "Battery is almost Empty")
          /\ (lastKnown = "Full" /\ state' = "High")
                => IsAlert(item', "Battery is almost Full")]_vars

\* Critical, then a failed read, then Low: the Low alert is out.
C21_Witness ==
    /\ pc = "show"
    /\ lastKnown = "Critical"
    /\ previous = "Unknown"
    /\ GoodRead(read)
    /\ state = "Low"
    /\ IsAlert(item, "Battery is almost Empty")

====
